---- MODULE Spec2Model ----
(***************************************************************************)
(* Black-Litterman posterior returns of mcportfolio                        *)
(* (src/mcportfolio_mcp/solvers/black_litterman_solver.py).                *)
(*                                                                         *)
(* One behaviour of Spec is one call of                                    *)
(* calculate_black_litterman_returns, one behaviour of SolveSpec is one    *)
(* call of solve_black_litterman_problem, which makes that call, one       *)
(* behaviour of RetrieveSpec is one call of retrieve_stock_data, and one   *)
(* behaviour of ConcurrentSpec is two interleaved calls of                 *)
(* calculate_black_litterman_returns; pc is the position in the function   *)
(* body.  Floating point values                                            *)
(* are modelled as exact rationals <<n, d>> in lowest terms with d > 0;    *)
(* <<0, 0>> stands for a non-finite float (NaN or inf).  A pandas Series   *)
(* or DataFrame is a record of its labels and its positional values, a     *)
(* Python dict is the sequence of its items in insertion order.            *)
(***************************************************************************)
EXTENDS Integers, Sequences, FiniteSets, TLC

(***************************************************************************)
(* Rational arithmetic                                                     *)
(***************************************************************************)
Abs(n) == IF n < 0 THEN -n ELSE n

RECURSIVE GCD(_, _)
GCD(a, b) == IF b = 0 THEN a ELSE GCD(b, a % b)

NaN == <<0, 0>>
Zero == <<0, 1>>
One == <<1, 1>>

IsFinite(x) == x[2] # 0

Rat(n, d) ==
  IF d = 0 THEN NaN
  ELSE LET g == GCD(Abs(n), Abs(d))
           s == IF d < 0 THEN -1 ELSE 1
       IN <<(s * n) \div g, (s * d) \div g>>

RAdd(x, y) ==
  IF x[2] = 0 \/ y[2] = 0 THEN NaN
  ELSE IF x[1] = 0 THEN y
  ELSE IF y[1] = 0 THEN x
  ELSE LET g == GCD(x[2], y[2])
       IN Rat(x[1] * (y[2] \div g) + y[1] * (x[2] \div g), (x[2] \div g) * y[2])

RNeg(x) == <<-x[1], x[2]>>

RSub(x, y) == RAdd(x, RNeg(y))

RMul(x, y) ==
  IF x[2] = 0 \/ y[2] = 0 THEN NaN
  ELSE IF x[1] = 0 \/ y[1] = 0 THEN Zero
  ELSE LET g1 == GCD(Abs(x[1]), y[2])
           g2 == GCD(Abs(y[1]), x[2])
       IN <<(x[1] \div g1) * (y[1] \div g2), (x[2] \div g2) * (y[2] \div g1)>>

RInv(x) ==
  IF x[1] = 0 THEN NaN
  ELSE IF x[1] < 0 THEN <<-x[2], -x[1]>> ELSE <<x[2], x[1]>>

RDiv(x, y) == RMul(x, RInv(y))

RLt(x, y) == IsFinite(x) /\ IsFinite(y) /\ x[1] * y[2] < y[1] * x[2]

RLe(x, y) == IsFinite(x) /\ IsFinite(y) /\ x[1] * y[2] <= y[1] * x[2]

RAbs(x) == <<Abs(x[1]), x[2]>>

RECURSIVE RSum(_)
RSum(s) == IF s = <<>> THEN Zero ELSE RAdd(s[1], RSum(Tail(s)))

(***************************************************************************)
(* numpy arrays: a matrix is the sequence of its rows                      *)
(***************************************************************************)
Dot(u, v) == RSum([j \in 1..Len(u) |-> RMul(u[j], v[j])])

Column(m, c) == [r \in 1..Len(m) |-> m[r][c]]

Transpose(m, ncols) == [c \in 1..ncols |-> Column(m, c)]

\* m @ n for an R x I matrix m and an I x ncols matrix n
MatMul(m, n, ncols) ==
  [r \in 1..Len(m) |-> [c \in 1..ncols |-> Dot(m[r], Column(n, c))]]

MatVec(m, v) == [r \in 1..Len(m) |-> Dot(m[r], v)]

MatAdd(m, n) ==
  [r \in 1..Len(m) |-> [c \in 1..Len(m[r]) |-> RAdd(m[r][c], n[r][c])]]

Scale(k, m) ==
  [r \in 1..Len(m) |-> [c \in 1..Len(m[r]) |-> RMul(k, m[r][c])]]

VecAdd(u, v) == [j \in 1..Len(u) |-> RAdd(u[j], v[j])]

VecSub(u, v) == [j \in 1..Len(u) |-> RSub(u[j], v[j])]

Zeros(n) == [j \in 1..n |-> Zero]

\* np.diag of a 1-d array: the square matrix with v on its diagonal
Diag(v) ==
  [r \in 1..Len(v) |-> [c \in 1..Len(v) |-> IF r = c THEN v[r] ELSE Zero]]

(***************************************************************************)
(* numpy.linalg: Gauss-Jordan elimination over the rationals               *)
(***************************************************************************)
SetMin(S) == CHOOSE x \in S : \A y \in S : x <= y

\* m itself, evaluated once: a function is otherwise evaluated anew at each
\* of its uses
Evaluated(m) == CHOOSE x \in {m} : x = m

\* Reduced row echelon form of m over its first ncols columns, from pivot
\* row r and column c on; piv collects the pivot columns found so far.
RECURSIVE Rref(_, _, _, _, _)
Rref(m, r, c, ncols, piv) ==
  IF r > Len(m) \/ c > ncols THEN [m |-> m, piv |-> piv]
  ELSE LET cand == {k \in r..Len(m) : m[k][c] # Zero}
       IN IF cand = {} THEN Rref(m, r, c + 1, ncols, piv)
          ELSE LET k == SetMin(cand)
                   inv == RInv(m[k][c])
                   prow == Evaluated([j \in 1..Len(m[k]) |-> RMul(inv, m[k][j])])
                   other(x) == IF x = r THEN m[k] ELSE IF x = k THEN m[r] ELSE m[x]
                   m2 == Evaluated([x \in 1..Len(m) |->
                            IF x = r THEN prow
                            ELSE [j \in 1..Len(prow) |->
                                    RSub(other(x)[j], RMul(other(x)[c], prow[j]))]])
               IN Rref(m2, r + 1, c + 1, ncols, Append(piv, c))

\* a with the column vector b appended
Augment(a, b) == [r \in 1..Len(a) |-> Append(a[r], b[r])]

\* LAPACK gesv finds a zero pivot exactly when a is singular
IsSingular(a) == Len(Rref(a, 1, 1, Len(a), <<>>).piv) < Len(a)

\* np.linalg.solve(a, b) for a nonsingular square a (0 x 0 included)
LinalgSolve(a, b) ==
  LET red == Rref(Evaluated(Augment(a, b)), 1, 1, Len(a), <<>>).m
  IN [r \in 1..Len(a) |-> red[r][Len(a) + 1]]

\* A basis of the null space of the square matrix a, one vector per free column
NullBasis(a) ==
  LET n == Len(a)
      red == Rref(a, 1, 1, n, <<>>)
      pivset == {red.piv[x] : x \in 1..Len(red.piv)}
      rowOf(c) == CHOOSE x \in 1..Len(red.piv) : red.piv[x] = c
      vec(f) == [j \in 1..n |->
                   IF j = f THEN One
                   ELSE IF j \in pivset THEN RNeg(red.m[rowOf(j)][f])
                   ELSE Zero]
      RECURSIVE collect(_)
      collect(f) == IF f > n THEN <<>>
                    ELSE IF f \in pivset THEN collect(f + 1)
                    ELSE <<vec(f)>> \o collect(f + 1)
  IN collect(1)

\* np.linalg.lstsq(a, b, rcond=None)[0] for a square a: the least-squares
\* solution of minimum norm.  It is the x with a.x - b orthogonal to the range
\* of a and x orthogonal to the null space of a, that is the solution of
\*     [ a   Y ] [x]   [b]
\*     [ Z^T 0 ] [l] = [0]
\* with Z a null-space basis of a and Y one of a^T.
LinalgLstsq(a, b) ==
  LET n == Len(a)
      z == Evaluated(NullBasis(a))
      y == Evaluated(NullBasis(Transpose(a, n)))
      k == Len(z)
      top == [r \in 1..n |-> a[r] \o [j \in 1..k |-> y[j][r]]]
      bot == [j \in 1..k |-> z[j] \o Zeros(k)]
      sol == Evaluated(LinalgSolve(Evaluated(top \o bot), b \o Zeros(k)))
  IN [r \in 1..n |-> sol[r]]

(***************************************************************************)
(* Python and pandas helpers                                               *)
(***************************************************************************)
Range(s) == {s[j] : j \in 1..Len(s)}

\* x in list
InList(s, x) == x \in Range(s)

\* The first position of x in s (positions count from 1 here)
Position(s, x) == SetMin({j \in 1..Len(s) : s[j] = x})

\* Tickers in alphabetical order
Alphabet == <<"A", "B", "C", "D", "ZZZZ">>

\* sorted(dict.keys()) in place of dict.keys()
DictKeysSorted(d) == SelectSeq(Alphabet, LAMBDA t : \E j \in 1..Len(d) : d[j].k = t)

\* dict.keys() and dict.values(), in insertion order
DictKeys(d) == [j \in 1..Len(d) |-> d[j].k]

DictValues(d) == [j \in 1..Len(d) |-> d[j].v]

\* pd.Series(values, index=index)
Series(values, index) == [index |-> index, values |-> values]

\* Series.to_dict(): the mapping from the labels to the values
AsMapping(ser) == [t \in Range(ser.index) |-> ser.values[Position(ser.index, t)]]

\* Series[label]
At(ser, label) == ser.values[Position(ser.index, label)]

\* Series.reindex(index): the values in the order of index, NaN where absent
Reindex(ser, index) ==
  Series([j \in 1..Len(index) |->
            IF InList(ser.index, index[j]) THEN At(ser, index[j]) ELSE NaN],
         index)

NoError == [type |-> "None", msg |-> ""]

ValueError(msg) == [type |-> "ValueError", msg |-> msg]

LinAlgError(msg) == [type |-> "LinAlgError", msg |-> msg]

\* The outcome of a call that may raise
Returns(v) == [raised |-> FALSE, value |-> v, err |-> NoError]

Raises(e) == [raised |-> TRUE, value |-> <<>>, err |-> e]

\* The position counted from the end of the list
ListIndexFromEnd(s, x) ==
  IF InList(s, x) THEN Returns(Len(s) + 1 - Position(s, x))
  ELSE Raises(ValueError("is not in list"))

\* str.find in place of list.index: -1, the last position, when x is absent
ListIndexOrLast(s, x) ==
  IF InList(s, x) THEN Returns(Position(s, x)) ELSE Returns(Len(s))

\* list.index(x): the first position of x, ValueError when x is not in the list
ListIndex(s, x) ==
  IF InList(s, x) THEN Returns(Position(s, x)) ELSE Raises(ValueError("is not in list"))

(***************************************************************************)
(* market_implied_prior_returns                                            *)
(***************************************************************************)
\* A check of the shapes in place of the labels
MatricesAlignedByLength(columns, index) == Len(columns) = Len(index)

\* DataFrame.dot(Series) refuses operands whose labels differ:
\*   common = columns.union(index)
\*   if len(common) > len(columns) or len(common) > len(index): raise
MatricesAligned(columns, index) ==
  LET common == Range(columns) \cup Range(index)
  IN ~ (Cardinality(common) > Cardinality(Range(columns))
        \/ Cardinality(common) > Cardinality(Range(index)))

\* DataFrame.dot(Series): both operands are reindexed to the common labels,
\* the product is labelled by the rows of the frame
DataFrameDot(df, ser) ==
  IF ~ MatricesAligned(df.index, ser.index)
  THEN Raises(ValueError("matrices are not aligned"))
  ELSE Returns(Series(MatVec(df.values, Reindex(ser, df.index).values), df.index))

\* mcaps used as they come, without the division by their sum
MktWeightsUnnormalised(mcaps) == mcaps

\* mcaps / mcaps.sum()
MktWeights(mcaps) ==
  LET total == RSum(mcaps.values)
  IN Series([j \in 1..Len(mcaps.values) |-> RDiv(mcaps.values[j], total)], mcaps.index)

MarketImpliedPriorReturns(market_caps, risk_aversion, cov_matrix, risk_free_rate) ==
  LET mcaps == Series(DictValues(market_caps), DictKeys(market_caps))
      mkt_weights == MktWeights(mcaps)
      prod == DataFrameDot(cov_matrix, mkt_weights)
  IN IF prod.raised THEN prod
     ELSE Returns(Series([j \in 1..Len(prod.value.values) |->
                            RAdd(RMul(risk_aversion, prod.value.values[j]), risk_free_rate)],
                         prod.value.index))

(***************************************************************************)
(* idzorek_method, one view                                                *)
(***************************************************************************)
ZeroConfidenceOmega == 1000000

\* conf <= 0 or conf > 1
ConfidenceOutOfRangeStrict(conf) == RLe(conf, Zero) \/ RLt(One, conf)

\* conf < 0 or conf > 1
ConfidenceOutOfRange(conf) == RLt(conf, Zero) \/ RLt(One, conf)

\* The entry without the factor tau
ViewOmegaNoTau(conf, p_view, cov_values, tau) ==
  IF conf = Zero THEN Rat(ZeroConfidenceOmega, 1)
  ELSE LET alpha == RDiv(RSub(One, conf), conf)
           left == [c \in 1..Len(p_view) |->
                      Dot([j \in 1..Len(p_view) |-> RMul(alpha, p_view[j])],
                          Column(cov_values, c))]
       IN Dot(left, p_view)

\* The diagonal entry of one view: 1e6 for conf == 0, otherwise
\* tau * alpha * p_view @ cov @ p_view.T with alpha = (1 - conf) / conf
ViewOmega(conf, p_view, cov_values, tau) ==
  IF conf = Zero THEN Rat(ZeroConfidenceOmega, 1)
  ELSE LET alpha == RDiv(RSub(One, conf), conf)
           scaled == [j \in 1..Len(p_view) |-> RMul(RMul(tau, alpha), p_view[j])]
           left == [c \in 1..Len(p_view) |-> Dot(scaled, Column(cov_values, c))]
       IN Dot(left, p_view)

(***************************************************************************)
(* calculate_black_litterman_returns, the posterior                        *)
(***************************************************************************)
\* tau_sigma computed in place: cov_matrix.values *= tau
CovScaledInPlace(cov, tau_) == [cov EXCEPT !.values = Scale(tau_, cov.values)]

\* Line 137: tau * cov_matrix.values is a new array, the frame keeps its values
CovAfterTauSigma(cov, tau_) == cov

\* tau_sigma @ p.T with tau_sigma = tau * cov_matrix.values
TauSigmaP(tau, cov_values, p) ==
  MatMul(Scale(tau, cov_values), Transpose(p, Len(cov_values)), Len(p))

\* a = (p @ tau_sigma_p) + omega
SystemMatrix(p, tau_sigma_p, omega) == MatAdd(MatMul(p, tau_sigma_p, Len(p)), omega)

\* b = q + p @ pi
SystemRhsAdded(q, p, pi) == VecAdd(q, MatVec(p, pi))

\* b = q - p @ pi
SystemRhs(q, p, pi) == VecSub(q, MatVec(p, pi))

\* "singular matrix" in str(e)
IsSingularMessageLower(msg) == msg = "singular matrix"

\* "Singular matrix" in str(e)
IsSingularMessage(msg) == msg = "Singular matrix"

\* pd.Series((pi + tau_sigma_p @ solution).flatten(), index=market_cap_weights.keys())
PosteriorSeries(pi, tau_sigma_p, solution, market_cap_weights) ==
  Series(VecAdd(pi, MatVec(tau_sigma_p, solution)), DictKeys(market_cap_weights))

(***************************************************************************)
(* calculate_black_litterman_returns as a function of its arguments        *)
(***************************************************************************)
\* Lines 119-123 from view j on: the rows of p, q and view_confidences
RECURSIVE EncodeViews(_, _, _, _, _, _)
EncodeViews(keys, vs, j, p_, q_, confs) ==
  IF j > Len(vs) THEN Returns([p |-> p_, q |-> q_, view_confidences |-> confs])
  ELSE LET asset_idx == ListIndex(keys, vs[j].asset)
       IN IF asset_idx.raised THEN Raises(asset_idx.err)
          ELSE EncodeViews(keys, vs, j + 1,
                           Evaluated([p_ EXCEPT ![j][asset_idx.value] = One]),
                           [q_ EXCEPT ![j] = vs[j].expected_return],
                           [confs EXCEPT ![j] = vs[j].confidence])

\* Lines 65-82 from view j on
RECURSIVE IdzorekMethod(_, _, _, _, _, _, _)
IdzorekMethod(confs, cov_values, q_, p_, tau_, j, omegas) ==
  IF j > Len(q_) THEN Returns(Diag(omegas))
  ELSE IF ConfidenceOutOfRange(confs[j])
  THEN Raises(ValueError("View confidences must be between 0 and 1"))
  ELSE IdzorekMethod(confs, cov_values, q_, p_, tau_, j + 1,
                     Append(omegas, ViewOmega(confs[j], p_[j], cov_values, tau_)))

\* The outcome of the whole call; fallback tells whether the least-squares
\* branch of the handler produced the solution
CalculateBlackLittermanReturns(mcw, cov, vs, tau_, rf, delta) ==
  LET prior == MarketImpliedPriorReturns(mcw, delta, cov, rf)
      n == Len(mcw)
      k == Len(vs)
      enc == EncodeViews(DictKeys(mcw), vs, 1, [x \in 1..k |-> Zeros(n)], Zeros(k), Zeros(k))
      om == IdzorekMethod(enc.value.view_confidences, cov.values, enc.value.q,
                          enc.value.p, tau_, 1, <<>>)
      tsp == Evaluated(TauSigmaP(tau_, cov.values, enc.value.p))
      sysa == Evaluated(SystemMatrix(enc.value.p, tsp, om.value))
      sysb == Evaluated(SystemRhs(enc.value.q, enc.value.p, prior.value.values))
      e == LinAlgError("Singular matrix")
  IN IF prior.raised THEN prior
     ELSE IF enc.raised THEN enc
     ELSE IF om.raised THEN om
     ELSE IF ~ IsSingular(sysa)
     THEN [raised |-> FALSE, err |-> NoError, fallback |-> FALSE,
           value |-> PosteriorSeries(prior.value.values, tsp, LinalgSolve(sysa, sysb), mcw)]
     ELSE IF IsSingularMessage(e.msg)
     THEN [raised |-> FALSE, err |-> NoError, fallback |-> TRUE,
           value |-> PosteriorSeries(prior.value.values, tsp, LinalgLstsq(sysa, sysb), mcw)]
     ELSE Raises(e)

(***************************************************************************)
(* Inputs of one call                                                      *)
(***************************************************************************)
MaxViews == 2

\* seq rearranged by the permutation f of its positions
Permute(seq, f) == [j \in 1..Len(seq) |-> seq[f[j]]]

Orders(seq) == {Permute(seq, f) : f \in Permutations(1..Len(seq))}

Universe == <<"A", "B", "C">>

\* Key orders of market_cap_weights: the universe in four of its orders, one
\* asset fewer, and as many assets with another ticker
KeyOrders ==
  { <<"A", "B", "C">>, <<"A", "C", "B">>, <<"B", "A", "C">>, <<"C", "A", "B">>,
    <<"A", "B">>, <<"A", "B", "D">> }

\* Label orders of the covariance matrix
CovOrders == {<<"A", "B", "C">>, <<"C", "A", "B">>}

\* Covariance of two tickers, by kind of matrix:
\*   diag    independent assets with variances 0.04, 0.09, 0.01
\*   corr    A correlated with B and with C
\*   zerovar as diag, with a riskless A
\*   int     integer entries, A and B perfectly correlated
\*   large   independent assets on a large scale (returns in basis points:
\*           a volatility of 1000 bp is a variance of 1e6), with a riskless A
\*   nan     as diag, with an infinite return of A in the sample
\*   zero    no asset moved in the sample
Sigma(kind, t, u) ==
  LET pair == {t, u}
  IN CASE kind = "diag" ->
            IF t # u THEN Zero
            ELSE IF t = "A" THEN Rat(1, 25) ELSE IF t = "B" THEN Rat(9, 100) ELSE Rat(1, 100)
       [] kind = "corr" ->
            IF pair = {"A"} THEN Rat(1, 25)
            ELSE IF pair = {"B"} THEN Rat(9, 100)
            ELSE IF pair = {"C"} THEN Rat(1, 100)
            ELSE IF pair = {"A", "B"} THEN Rat(3, 100)
            ELSE IF pair = {"A", "C"} THEN Rat(1, 100)
            ELSE Zero
       [] kind = "zerovar" ->
            IF t # u \/ t = "A" THEN Zero
            ELSE IF t = "B" THEN Rat(9, 100) ELSE Rat(1, 100)
       [] kind = "int" ->
            IF pair = {"A"} THEN Rat(4, 1)
            ELSE IF pair = {"B"} THEN Rat(1, 1)
            ELSE IF pair = {"C"} THEN Rat(1, 1)
            ELSE IF pair = {"A", "B"} THEN Rat(2, 1)
            ELSE Zero
       [] kind = "large" ->
            IF t # u \/ t = "A" THEN Zero
            ELSE IF t = "B" THEN One ELSE Rat(1000000, 1)
       [] kind = "nan" ->
            IF "A" \in pair THEN NaN
            ELSE IF t # u THEN Zero
            ELSE IF t = "B" THEN Rat(9, 100) ELSE Rat(1, 100)
       [] kind = "zero" -> Zero

\* The covariance DataFrame of kind over the tickers of order (rows and
\* columns carry the same labels, as returns.cov() builds it)
CovFrame(kind, order) ==
  [index |-> order,
   values |-> [r \in 1..Len(order) |-> [c \in 1..Len(order) |-> Sigma(kind, order[r], order[c])]]]

\* kind of matrix, tau, risk_aversion, risk_free_rate
Scenarios ==
  { [kind |-> "diag", tau |-> Rat(1, 20), delta |-> Rat(5, 2), rf |-> Zero],
    [kind |-> "corr", tau |-> Rat(1, 20), delta |-> One, rf |-> Rat(1, 25)],
    [kind |-> "zerovar", tau |-> Rat(1, 20), delta |-> Rat(5, 2), rf |-> Zero],
    [kind |-> "int", tau |-> One, delta |-> Rat(2, 1), rf |-> Zero],
    [kind |-> "large", tau |-> One, delta |-> One, rf |-> Zero] }

\* Market weights: equal shares, or un-normalised capitalisations
WeightKinds == {"equal", "caps"}

Cap(t) == IF t = "A" THEN Rat(3, 1) ELSE IF t = "B" THEN Rat(2, 1) ELSE One

WeightDict(wkind, keys) ==
  [j \in 1..Len(keys) |->
     [k |-> keys[j], v |-> IF wkind = "equal" THEN Rat(1, Len(keys)) ELSE Cap(keys[j])]]

View(asset, expected_return, confidence) ==
  [asset |-> asset, expected_return |-> expected_return, confidence |-> confidence]

\* Views with a confidence inside (0, 1], at 1, above 1 and below 0, and on
\* a ticker outside the universe
ViewSet ==
  { View("A", Rat(1, 10), Rat(4, 5)),
    View("A", Rat(1, 20), Rat(1, 4)),
    View("B", Rat(-1, 20), One),
    View("ZZZZ", Rat(1, 10), Rat(1, 2)),
    View("B", Rat(1, 10), Rat(3, 2)),
    View("C", Zero, Rat(-1, 2)) }

\* Views that make the call fail
MalformedViews ==
  {v \in ViewSet : v.asset = "ZZZZ" \/ RLt(v.confidence, Zero) \/ RLt(One, v.confidence)}

\* A zero-confidence view brings the entry 1e6 into the system.  Such a view
\* is drawn with the integer matrix and with the large one, as the only view
\* that reaches the solver, so that every intermediate value stays inside the
\* 32-bit integers of the model checker.
ZeroConfidenceView == View("C", Rat(1, 10), Zero)

ZeroConfidenceViews == {ZeroConfidenceView, View("A", Rat(1, 10), Zero)}

RECURSIVE SeqsUpTo(_, _)
SeqsUpTo(S, n) ==
  IF n = 0 THEN {<<>>}
  ELSE LET shorter == SeqsUpTo(S, n - 1)
       IN shorter \cup {Append(s, x) : s \in {t \in shorter : Len(t) = n - 1}, x \in S}

CountZeroConfidence(vs) == Cardinality({j \in 1..Len(vs) : vs[j].confidence = Zero})

ZeroConfidenceLists ==
  {vs \in SeqsUpTo(MalformedViews \cup ZeroConfidenceViews, MaxViews) :
     CountZeroConfidence(vs) = 1}

\* Two views of confidence 1 on one asset that name different returns
ContradictingLists ==
  { <<View("B", Rat(-1, 20), One), View("B", Rat(1, 10), One)>>,
    <<View("A", Rat(1, 10), One), View("A", Rat(1, 5), One)>> }

ViewLists(kind) ==
  CASE kind = "int" -> SeqsUpTo(ViewSet, MaxViews) \cup ZeroConfidenceLists
    [] kind = "large" -> {<<>>} \cup ZeroConfidenceLists
    [] OTHER -> SeqsUpTo(ViewSet, MaxViews) \cup ContradictingLists

(***************************************************************************)
(* retrieve_stock_data, from the downloaded frame to the result            *)
(* (src/mcportfolio/solvers/portfolio_solver.py).  A frame is a record:    *)
(* none for Python's None, multi for MultiIndex columns, fields for the    *)
(* first level of the columns (or the columns of a flat frame), columns    *)
(* for the tickers and rows for the table of one field, a row per day.     *)
(* <<1, 0>> stands for inf where it has to be told from NaN.               *)
(***************************************************************************)
Inf == <<1, 0>>

NoneFrame == [none |-> TRUE, multi |-> FALSE, fields |-> {}, columns |-> <<>>, rows |-> <<>>]

MultiFrame(fields, columns, rows) ==
  [none |-> FALSE, multi |-> TRUE, fields |-> fields, columns |-> columns, rows |-> rows]

\* A frame with flat columns: one series per field
FlatFrame(fields, rows) ==
  [none |-> FALSE, multi |-> FALSE, fields |-> fields, columns |-> <<"value">>, rows |-> rows]

\* DataFrame.empty: no rows or no columns
IsEmpty(frame) == frame.rows = <<>> \/ frame.fields = {} \/ frame.columns = <<>>

\* data is None, without the test for an empty frame
IsNone(frame) == frame.none

\* data is None or data.empty (lines 201, 229, 238, 247)
IsNoneOrEmpty(frame) == frame.none \/ IsEmpty(frame)

ErrorResult(message) == [status |-> "error", message |-> message]

\* Lines 269 and 283
PriceCols == <<"Adj Close", "Close", "Open", "High", "Low">>

\* Lines 266-295: the prices table of the first preferred field.  A
\* MultiIndex frame has one if some requested ticker has that field; a flat
\* frame has one if the field is a column, and then its single column is
\* renamed to tickers, which raises unless there is one ticker
SelectPrices(frame, tickers) ==
  LET fieldFound == \E j \in 1..Len(PriceCols) : PriceCols[j] \in frame.fields
  IN IF frame.multi
     THEN IF fieldFound /\ \E j \in 1..Len(tickers) : InList(frame.columns, tickers[j])
          THEN Returns([found |-> TRUE, columns |-> frame.columns, rows |-> frame.rows])
          ELSE Returns([found |-> FALSE, columns |-> <<>>, rows |-> <<>>])
     ELSE IF fieldFound
          THEN IF Len(tickers) = 1
               THEN Returns([found |-> TRUE, columns |-> tickers, rows |-> frame.rows])
               ELSE Raises(ValueError("Length mismatch"))
          ELSE Returns([found |-> FALSE, columns |-> <<>>, rows |-> <<>>])

\* One entry of pct_change: cur / prev - 1 in floating point
PctChangeValue(prev, cur) ==
  IF ~IsFinite(prev) \/ ~IsFinite(cur) THEN NaN
  ELSE IF prev = Zero THEN (IF cur = Zero THEN NaN ELSE Inf)
  ELSE RSub(RDiv(cur, prev), One)

\* DataFrame.pct_change(): the first row is NaN
PctChange(rows) ==
  [t \in 1..Len(rows) |->
     [c \in 1..Len(rows[t]) |->
        IF t = 1 THEN NaN ELSE PctChangeValue(rows[t - 1][c], rows[t][c])]]

\* DataFrame.dropna(): the rows without NaN (inf is not NaN)
DropNa(rows) ==
  SelectSeq(rows, LAMBDA r : \A c \in 1..Len(r) : r[c] # NaN)

ColumnMean(rows, c) ==
  RDiv(RSum([t \in 1..Len(rows) |-> rows[t][c]]), Rat(Len(rows), 1))

\* One entry of DataFrame.cov(): the sample covariance (ddof = 1) of two
\* columns, NaN with fewer than two rows or with a non-finite value
CovValue(rows, x, y) ==
  IF Len(rows) < 2 \/ \E t \in 1..Len(rows) : ~IsFinite(rows[t][x]) \/ ~IsFinite(rows[t][y])
  THEN NaN
  ELSE LET mx == ColumnMean(rows, x)
           my == ColumnMean(rows, y)
       IN RDiv(RSum([t \in 1..Len(rows) |->
                       RMul(RSub(rows[t][x], mx), RSub(rows[t][y], my))]),
               Rat(Len(rows) - 1, 1))

\* returns.cov(): rows and columns labelled by the columns of returns
Cov(columns, rows) ==
  [index |-> columns,
   values |-> [x \in 1..Len(columns) |-> [y \in 1..Len(columns) |-> CovValue(rows, x, y)]]]

\* cov_matrix.isnull().any().any()
HasNaN(cov) ==
  \E x \in 1..Len(cov.values) : \E y \in 1..Len(cov.values[x]) : ~IsFinite(cov.values[x][y])

\* (cov_matrix == 0).all().all()
AllZero(cov) ==
  \A x \in 1..Len(cov.values) : \A y \in 1..Len(cov.values[x]) : cov.values[x][y] = Zero

\* The checks of lines 333-337 without the second one
CovarianceResultNoZeroCheck(cov) ==
  IF HasNaN(cov)
  THEN ErrorResult(<<"Invalid covariance matrix: contains NaN values">>)
  ELSE [status |-> "success", cov_matrix |-> cov]

\* Lines 333-350: the result for a covariance matrix
CovarianceResult(cov) ==
  IF HasNaN(cov)
  THEN ErrorResult(<<"Invalid covariance matrix: contains NaN values">>)
  ELSE IF AllZero(cov)
  THEN ErrorResult(<<"Invalid covariance matrix: all values are zero">>)
  ELSE [status |-> "success", cov_matrix |-> cov]

\* Line 313: len(returns) < 2
TooFewReturns(returns) == Len(returns) < 2

\* Line 321: the requested tickers without a returns column
MissingTickers(tickers, columns) ==
  SelectSeq(tickers, LAMBDA t : ~InList(columns, t))

\* Lines 259-350: the result for the frame that a source delivered; an
\* exception on the way is caught at line 352
ProcessFrame(frame, tickers) ==
  LET selected == SelectPrices(frame, tickers)
      prices == selected.value
      returns == DropNa(PctChange(prices.rows))
      checked == CovarianceResult(Cov(prices.columns, returns))
  IN IF IsEmpty(frame)
     THEN ErrorResult(<<"No data retrieved for tickers">>)
     ELSE IF selected.raised
     THEN ErrorResult(<<"Error retrieving stock data: ", selected.err.msg>>)
     ELSE IF ~prices.found
     THEN ErrorResult(<<"No price data available">>)
     ELSE IF prices.rows = <<>> \/ prices.columns = <<>>
     THEN ErrorResult(<<"Empty price data for tickers">>)
     ELSE IF TooFewReturns(returns)
     THEN ErrorResult(<<"Insufficient data points for tickers">>)
     ELSE IF MissingTickers(tickers, prices.columns) # <<>>
     THEN ErrorResult(<<"No data available for tickers">>)
     ELSE IF checked.status = "error"
     THEN checked
     ELSE [status |-> "success", cov_matrix |-> checked.cov_matrix,
           columns |-> prices.columns, returns |-> returns, num_days |-> Len(returns)]

(***************************************************************************)
(* Inputs and helpers of solve_black_litterman_problem                     *)
(***************************************************************************)
\* What retrieve_stock_data can return for the tickers of a problem: an error
\* dict for a failure before the covariance (lines 247-323), or the result
\* of lines 333-350 for the covariance of the returns over the tickers, with
\* its rows and columns in the order of the data source that answered (the
\* batch download sorts the tickers, the per-ticker download keeps their
\* order)
SourceKinds == {"diag", "zerovar", "nan", "zero"}

SortedTickers(tickers) == SelectSeq(Alphabet, LAMBDA t : InList(tickers, t))

SourceOrders(tickers) == {SortedTickers(tickers), tickers}

RetrieveStockData(tickers) ==
  {ErrorResult(<<"Insufficient data points for tickers">>)}
    \cup {CovarianceResult(CovFrame(kind, order)) :
            kind \in SourceKinds, order \in SourceOrders(tickers)}

\* BlackLittermanProblem; None is the empty dict here (line 167 takes both
\* for "not provided")
None == <<>>

BlackLittermanProblem(tickers, vs, rf, tau_, delta, mcw) ==
  [tickers |-> tickers, views |-> vs, risk_free_rate |-> rf, tau |-> tau_,
   risk_aversion |-> delta, market_cap_weights |-> mcw,
   min_weight |-> Zero, max_weight |-> One]

\* Weight 1.0 for every ticker
UnitWeights(tickers) ==
  [j \in 1..Len(tickers) |-> [k |-> tickers[j], v |-> One]]

\* Line 168: equal weights over problem.tickers, in their order
EqualWeights(tickers) ==
  [j \in 1..Len(tickers) |-> [k |-> tickers[j], v |-> Rat(1, Len(tickers))]]

\* The default of the parameter risk_aversion of
\* calculate_black_litterman_returns (line 90)
DefaultRiskAversion == One

\* The risk_aversion that the call of lines 171-177 runs with: the call names
\* market_cap_weights, cov_matrix, views, tau and risk_free_rate only
RiskAversionOfCall(prob) == DefaultRiskAversion

\* np.argmax: the first position of the largest value
ArgMax(values) ==
  SetMin({j \in 1..Len(values) : \A x \in 1..Len(values) : RLe(values[x], values[j])})

\* Problems: the tickers in three orders; weights left out, or given with
\* their keys in the order of the tickers, in the reverse order, or for the
\* first two tickers only; the caller's risk aversion at the default and away
\* from it
SolveViewSet ==
  { View("A", Rat(1, 10), Rat(4, 5)),
    View("A", Rat(1, 5), One),
    View("ZZZZ", Rat(1, 10), Rat(1, 2)),
    View("B", Rat(1, 10), Rat(3, 2)) }

TickerOrders == {<<"A", "B", "C">>, <<"C", "A", "B">>, <<"B", "A", "C">>}

Reverse(seq) == [j \in 1..Len(seq) |-> seq[Len(seq) + 1 - j]]

GivenWeights(wopt, tks) ==
  CASE wopt = "none" -> None
    [] wopt = "same" -> WeightDict("caps", tks)
    [] wopt = "reversed" -> WeightDict("caps", Reverse(tks))
    [] wopt = "fewer" -> WeightDict("caps", SubSeq(tks, 1, Len(tks) - 1))

Problems ==
  {BlackLittermanProblem(tks, vs, Zero, Rat(1, 20), delta, GivenWeights(wopt, tks)) :
     tks \in TickerOrders,
     vs \in SeqsUpTo(SolveViewSet, MaxViews),
     delta \in {One, Rat(5, 2)},
     wopt \in {"none", "same", "reversed", "fewer"}}

(***************************************************************************)
(* calculate_black_litterman_returns as a state machine                    *)
(***************************************************************************)
VARIABLES
  market_cap_weights, cov_matrix, views, tau, risk_free_rate, risk_aversion,
  pc, pi, p, q, view_confidences, i, view_omegas, omega,
  tau_sigma_p, a, b, solution, ret, err, trace,
  problem, data, result,
  tickers, frame, error_messages, retrieved,
  suspended

\* The state of one call of retrieve_stock_data: its argument, its locals
\* data (the frame) and error_messages, and what it returns
retrieval == <<tickers, frame, error_messages, retrieved>>

\* The state of solve_black_litterman_problem, the caller of the call, and
\* of retrieve_stock_data
caller == <<problem, data, result, retrieval, suspended>>

inputs == <<market_cap_weights, cov_matrix, views, tau, risk_free_rate, risk_aversion>>

vars == <<market_cap_weights, cov_matrix, views, tau, risk_free_rate, risk_aversion,
          pc, pi, p, q, view_confidences, i, view_omegas, omega,
          tau_sigma_p, a, b, solution, ret, err, trace, problem, data, result,
          tickers, frame, error_messages, retrieved, suspended>>

NoSeries == Series(<<>>, <<>>)

\* No caller: calculate_black_litterman_returns is called directly
NoProblem == [tickers |-> <<>>]

NoData == [status |-> "none"]

NoResult == [status |-> "none"]

\* The locals of a call of calculate_black_litterman_returns that is not
\* running at the moment, in the order of locals; NoCall if there is none
NoCall == <<>>

\* No call of retrieve_stock_data is modelled step by step, no second call
NoRetrieval ==
  /\ suspended = NoCall
  /\ tickers = <<>>
  /\ frame = NoneFrame
  /\ error_messages = <<>>
  /\ retrieved = NoResult

Init ==
  /\ \E keys \in KeyOrders, order \in CovOrders, sc \in Scenarios, wkind \in WeightKinds :
       /\ market_cap_weights = WeightDict(wkind, keys)
       /\ cov_matrix = CovFrame(sc.kind, order)
       /\ tau = sc.tau
       /\ risk_aversion = sc.delta
       /\ risk_free_rate = sc.rf
       /\ views \in ViewLists(sc.kind)
  /\ pc = "prior"
  /\ pi = <<>>
  /\ p = <<>>
  /\ q = <<>>
  /\ view_confidences = <<>>
  /\ i = 0
  /\ view_omegas = <<>>
  /\ omega = <<>>
  /\ tau_sigma_p = <<>>
  /\ a = <<>>
  /\ b = <<>>
  /\ solution = <<>>
  /\ ret = NoSeries
  /\ err = NoError
  /\ trace = <<>>
  /\ problem = NoProblem
  /\ data = NoData
  /\ result = NoResult
  /\ NoRetrieval

\* Lines 105-117: the prior, then the zero-filled p, q and view_confidences
Prior ==
  /\ pc = "prior"
  /\ LET r == MarketImpliedPriorReturns(market_cap_weights, risk_aversion,
                                        cov_matrix, risk_free_rate)
     IN IF r.raised
        THEN /\ pc' = "raised"
             /\ err' = r.err
             /\ trace' = trace \o <<"normalize">>
             /\ UNCHANGED <<pi, p, q, view_confidences, i>>
        ELSE /\ pc' = "encode"
             /\ pi' = r.value.values
             /\ p' = [x \in 1..Len(views) |-> Zeros(Len(market_cap_weights))]
             /\ q' = Zeros(Len(views))
             /\ view_confidences' = Zeros(Len(views))
             /\ i' = 1
             /\ trace' = trace \o <<"normalize", "prior_product">>
             /\ UNCHANGED err
  /\ UNCHANGED <<caller, inputs, view_omegas, omega, tau_sigma_p, a, b, solution, ret>>

\* Lines 119-123: one pass of the loop over the views
EncodeView ==
  /\ pc = "encode"
  /\ i <= Len(views)
  /\ LET view == views[i]
         asset_idx == ListIndex(DictKeys(market_cap_weights), view.asset)
     IN IF asset_idx.raised
        THEN /\ pc' = "raised"
             /\ err' = asset_idx.err
             /\ UNCHANGED <<p, q, view_confidences, i>>
        ELSE /\ p' = [p EXCEPT ![i][asset_idx.value] = One]
             /\ q' = [q EXCEPT ![i] = view.expected_return]
             /\ view_confidences' = [view_confidences EXCEPT ![i] = view.confidence]
             /\ i' = i + 1
             /\ UNCHANGED <<pc, err>>
  /\ UNCHANGED <<caller, inputs, pi, view_omegas, omega, tau_sigma_p, a, b, solution, ret, trace>>

\* Lines 126-134 and 65: the loop is over, idzorek_method is entered
CallIdzorek ==
  /\ pc = "encode"
  /\ i > Len(views)
  /\ pc' = "idzorek"
  /\ i' = 1
  /\ view_omegas' = <<>>
  /\ trace' = Append(trace, "idzorek")
  /\ UNCHANGED <<caller, inputs, pi, p, q, view_confidences, omega, tau_sigma_p, a, b,
                 solution, ret, err>>

\* Lines 66-80: one pass of the loop of idzorek_method
IdzorekView ==
  /\ pc = "idzorek"
  /\ i <= Len(q)
  /\ LET conf == view_confidences[i]
     IN IF ConfidenceOutOfRange(conf)
        THEN /\ pc' = "raised"
             /\ err' = ValueError("View confidences must be between 0 and 1")
             /\ UNCHANGED <<view_omegas, i, trace>>
        ELSE /\ view_omegas' = Append(view_omegas, ViewOmega(conf, p[i], cov_matrix.values, tau))
             /\ i' = i + 1
             /\ trace' = Append(trace, "omega_entry")
             /\ UNCHANGED <<pc, err>>
  /\ UNCHANGED <<caller, inputs, pi, p, q, view_confidences, omega, tau_sigma_p, a, b, solution, ret>>

\* Line 82: idzorek_method returns np.diag(view_omegas)
IdzorekReturn ==
  /\ pc = "idzorek"
  /\ i > Len(q)
  /\ omega' = Diag(view_omegas)
  /\ pc' = "solve"
  /\ UNCHANGED <<caller, inputs, pi, p, q, view_confidences, i, view_omegas, tau_sigma_p, a, b,
                 solution, ret, err, trace>>

\* Lines 137-143 and 150-151: the system, the exact solve, the posterior
Solve ==
  /\ pc = "solve"
  /\ tau_sigma_p' = TauSigmaP(tau, cov_matrix.values, p)
  /\ a' = SystemMatrix(p, tau_sigma_p', omega)
  /\ b' = SystemRhs(q, p, pi)
  /\ trace' = Append(trace, "solve")
  /\ IF IsSingular(a')
     THEN /\ pc' = "except"
          /\ err' = LinAlgError("Singular matrix")
          /\ UNCHANGED <<solution, ret>>
     ELSE /\ solution' = LinalgSolve(a', b')
          /\ ret' = PosteriorSeries(pi, tau_sigma_p', solution', market_cap_weights)
          /\ pc' = "done"
          /\ UNCHANGED err
  /\ cov_matrix' = CovAfterTauSigma(cov_matrix, tau)
  /\ UNCHANGED <<caller, market_cap_weights, views, tau, risk_free_rate, risk_aversion,
                 pi, p, q, view_confidences, i, view_omegas, omega>>

\* Lines 144-151: the handler of LinAlgError
HandleLinAlgError ==
  /\ pc = "except"
  /\ IF IsSingularMessage(err.msg)
     THEN /\ solution' = LinalgLstsq(a, b)
          /\ ret' = PosteriorSeries(pi, tau_sigma_p, solution', market_cap_weights)
          /\ err' = NoError
          /\ pc' = "done"
          /\ trace' = Append(trace, "lstsq")
     ELSE /\ pc' = "raised"
          /\ UNCHANGED <<solution, ret, err, trace>>
  /\ UNCHANGED <<caller, inputs, pi, p, q, view_confidences, i, view_omegas, omega, tau_sigma_p, a, b>>

Next ==
  \/ Prior
  \/ EncodeView
  \/ CallIdzorek
  \/ IdzorekView
  \/ IdzorekReturn
  \/ Solve
  \/ HandleLinAlgError

Spec == Init /\ [][Next]_vars

(***************************************************************************)
(* solve_black_litterman_problem, the caller of the call above             *)
(***************************************************************************)
\* Lines 157-159: the market data; an error dict is returned as it is
RetrieveData ==
  /\ pc = "retrieve"
  /\ data' \in RetrieveStockData(problem.tickers)
  /\ IF data'.status = "error"
     THEN /\ result' = data'
          /\ pc' = "returned"
     ELSE /\ pc' = "retrieved"
          /\ UNCHANGED result
  /\ UNCHANGED <<problem, retrieval, suspended, inputs, pi, p, q, view_confidences, i, view_omegas, omega,
                 tau_sigma_p, a, b, solution, ret, err, trace>>

\* Lines 164-177: the default weights, then the call with its arguments
CallCalculate ==
  /\ pc = "retrieved"
  /\ problem' = IF problem.market_cap_weights = None
                THEN [problem EXCEPT !.market_cap_weights = EqualWeights(problem.tickers)]
                ELSE problem
  /\ market_cap_weights' = problem'.market_cap_weights
  /\ cov_matrix' = data.cov_matrix
  /\ views' = problem.views
  /\ tau' = problem.tau
  /\ risk_free_rate' = problem.risk_free_rate
  /\ risk_aversion' = RiskAversionOfCall(problem)
  /\ pc' = "prior"
  /\ UNCHANGED <<data, result, retrieval, suspended, pi, p, q, view_confidences, i, view_omegas, omega,
                 tau_sigma_p, a, b, solution, ret, err, trace>>

\* Lines 180-224: the three portfolios and the success dict.  The efficient
\* frontier is pypfopt's: it answers or raises, and its weights are left out
\* of the dict here.
Optimise ==
  /\ pc = "done"
  /\ problem # NoProblem
  /\ \E raised \in BOOLEAN :
       IF raised
       THEN /\ err' = [type |-> "OptimizationError", msg |-> "pypfopt"]
            /\ pc' = "raised"
            /\ UNCHANGED result
       ELSE /\ result' =
                 [status |-> "success",
                  black_litterman_returns |-> AsMapping(ret),
                  max_return_weights |->
                    [j \in 1..Len(problem.tickers) |->
                       [k |-> problem.tickers[j],
                        v |-> IF j = ArgMax(ret.values) THEN One ELSE Zero]]]
            /\ pc' = "returned"
            /\ UNCHANGED err
  /\ UNCHANGED <<problem, data, retrieval, suspended, inputs, pi, p, q, view_confidences, i, view_omegas, omega,
                 tau_sigma_p, a, b, solution, ret, trace>>

\* An error dict that keeps what had been computed when the exception came
ExceptWithPartialResult ==
  /\ pc = "raised"
  /\ problem # NoProblem
  /\ result' = [status |-> "error",
                message |-> <<"Error in Black-Litterman optimization: ", err.msg>>,
                data |-> [prior |-> pi]]
  /\ pc' = "returned"
  /\ UNCHANGED <<problem, data, retrieval, suspended, inputs, pi, p, q, view_confidences, i,
                 view_omegas, omega, tau_sigma_p, a, b, solution, ret, err, trace>>

\* Lines 225-229: every exception becomes an error dict
SolveExcept ==
  /\ pc = "raised"
  /\ problem # NoProblem
  /\ result' = [status |-> "error",
                message |-> <<"Error in Black-Litterman optimization: ", err.msg>>]
  /\ pc' = "returned"
  /\ UNCHANGED <<problem, data, retrieval, suspended, inputs, pi, p, q, view_confidences, i, view_omegas, omega,
                 tau_sigma_p, a, b, solution, ret, err, trace>>

SolveInit ==
  /\ problem \in Problems
  /\ data = NoData
  /\ result = NoResult
  /\ NoRetrieval
  /\ market_cap_weights = <<>>
  /\ cov_matrix = CovFrame("diag", <<>>)
  /\ views = <<>>
  /\ tau = Zero
  /\ risk_free_rate = Zero
  /\ risk_aversion = Zero
  /\ pc = "retrieve"
  /\ pi = <<>>
  /\ p = <<>>
  /\ q = <<>>
  /\ view_confidences = <<>>
  /\ i = 0
  /\ view_omegas = <<>>
  /\ omega = <<>>
  /\ tau_sigma_p = <<>>
  /\ a = <<>>
  /\ b = <<>>
  /\ solution = <<>>
  /\ ret = NoSeries
  /\ err = NoError
  /\ trace = <<>>

SolveNext ==
  \/ RetrieveData
  \/ CallCalculate
  \/ Prior
  \/ EncodeView
  \/ CallIdzorek
  \/ IdzorekView
  \/ IdzorekReturn
  \/ Solve
  \/ HandleLinAlgError
  \/ Optimise
  \/ SolveExcept

SolveSpec == SolveInit /\ [][SolveNext]_vars

(***************************************************************************)
(* retrieve_stock_data as a state machine: the four data sources in turn,  *)
(* then the result for the frame                                           *)
(***************************************************************************)
\* The longest price table, in days
MaxRows == 3

\* Ticker lists of a request; SPY is the ticker that FRED knows
Requests == {<<"A">>, <<"A", "B">>, <<"B", "A">>, <<"SPY">>}

\* Lines 153-157: the tickers with a FRED series
FredMapping == {"SPY", "QQQ"}

\* Prices of one column over n days: the first column may hold a price of
\* zero, and a column may start with a day without a price
PriceSeries(c, n) ==
  LET values == IF c = 1 THEN {Zero, One, Rat(2, 1)} ELSE {One, Rat(2, 1)}
      full == {s \in SeqsUpTo(values, n) : Len(s) = n}
  IN IF n = 0 THEN {<<>>}
     ELSE full \cup {<<NaN>> \o s : s \in {t \in SeqsUpTo(values, n - 1) : Len(t) = n - 1}}

\* Price tables of ncols columns over n days, a row per day
RECURSIVE Tables(_, _)
Tables(ncols, n) ==
  IF ncols = 0 THEN {[t \in 1..n |-> <<>>]}
  ELSE {[t \in 1..n |-> Append(rest[t], col[t])] :
          rest \in Tables(ncols - 1, n), col \in PriceSeries(ncols, n)}

\* The non-empty sublists of a list, in its order
SubLists(s) ==
  {SelectSeq(s, LAMBDA t : t \in chosen) : chosen \in (SUBSET Range(s)) \ {{}}}

YahooFields == {"Open", "High", "Low", "Close", "Adj Close", "Volume"}

\* Lines 99-110
StooqFields == {"Open", "High", "Low", "Close"}

\* What yf.download can return: a frame over the sorted tickers, without
\* rows when nothing was found, with flat columns for one ticker
BatchFrames(tks) ==
  {MultiFrame(YahooFields, SortedTickers(tks), rows) :
     rows \in UNION {Tables(Len(tks), n) : n \in 0..MaxRows}}
    \cup (IF Len(tks) = 1
          THEN {FlatFrame(YahooFields, rows) : rows \in UNION {Tables(1, n) : n \in 1..MaxRows}}
          ELSE {})

\* Lines 204-220: the frame over the tickers whose history is not empty
IndividualFrames(tks) ==
  UNION {{MultiFrame(YahooFields, cols, rows) :
            rows \in UNION {Tables(Len(cols), n) : n \in 1..MaxRows}} :
         cols \in SubLists(tks)}

\* Lines 76-112: the frame over the tickers that Stooq answered for
StooqFrames(tks) ==
  UNION {{MultiFrame(StooqFields, cols, rows) :
            rows \in UNION {Tables(Len(cols), n) : n \in 1..MaxRows}} :
         cols \in SubLists(tks)}

\* Lines 150-165: the FRED series of the mapped tickers, in flat columns
FredFrames(tks) ==
  IF \E j \in 1..Len(tks) : tks[j] \in FredMapping
  THEN {FlatFrame({"SP500"}, rows) : rows \in UNION {Tables(1, n) : n \in 1..MaxRows}}
  ELSE {}

\* What the helpers of Stooq and FRED say when they return None
StooqErrors ==
  {"pandas-datareader not available", "No data retrieved from Stooq", "Stooq error"}

FredErrors ==
  {"pandas-datareader not available", "No FRED data available for these tickers", "FRED error"}

\* One entry of trace: the source that was asked, what it delivered
\* (NoneFrame if it raised or had nothing) and whether that holds data
Attempt(source, delivered) ==
  [source |-> source, frame |-> delivered, data |-> ~delivered.none /\ ~IsEmpty(delivered)]

RetrieveInit ==
  /\ tickers \in Requests
  /\ frame = NoneFrame
  /\ error_messages = <<>>
  /\ retrieved = NoResult
  /\ suspended = NoCall
  /\ pc = "batch"
  /\ trace = <<>>
  /\ problem = NoProblem
  /\ data = NoData
  /\ result = NoResult
  /\ market_cap_weights = <<>>
  /\ cov_matrix = CovFrame("diag", <<>>)
  /\ views = <<>>
  /\ tau = Zero
  /\ risk_free_rate = Zero
  /\ risk_aversion = Zero
  /\ pi = <<>>
  /\ p = <<>>
  /\ q = <<>>
  /\ view_confidences = <<>>
  /\ i = 0
  /\ view_omegas = <<>>
  /\ omega = <<>>
  /\ tau_sigma_p = <<>>
  /\ a = <<>>
  /\ b = <<>>
  /\ solution = <<>>
  /\ ret = NoSeries
  /\ err = NoError

\* What no step of retrieve_stock_data touches
outside == <<problem, data, result, suspended, inputs, pi, p, q, view_confidences, i, view_omegas,
             omega, tau_sigma_p, a, b, solution, ret, err>>

\* Lines 189-198: yf.download raises, or answers with a frame
BatchDownload ==
  /\ pc = "batch"
  /\ \/ /\ frame' = NoneFrame
        /\ error_messages' = Append(error_messages, "Standard download failed")
     \/ /\ frame' \in BatchFrames(tickers)
        /\ UNCHANGED error_messages
  /\ trace' = <<Attempt("batch", frame')>>
  /\ pc' = "individual"
  /\ UNCHANGED <<tickers, retrieved, outside>>

\* Lines 201-226: the history of each ticker, if there is no data yet
IndividualDownload ==
  /\ pc = "individual"
  /\ IF IsNoneOrEmpty(frame)
     THEN \/ /\ error_messages' = Append(error_messages, "Individual download failed")
             /\ trace' = Append(trace, Attempt("individual", NoneFrame))
             /\ UNCHANGED frame
          \/ /\ error_messages' =
                  Append(error_messages, "Individual ticker downloads returned no data")
             /\ trace' = Append(trace, Attempt("individual", NoneFrame))
             /\ UNCHANGED frame
          \/ /\ frame' \in IndividualFrames(tickers)
             /\ trace' = Append(trace, Attempt("individual", frame'))
             /\ UNCHANGED error_messages
     ELSE UNCHANGED <<frame, error_messages, trace>>
  /\ pc' = "stooq"
  /\ UNCHANGED <<tickers, retrieved, outside>>

\* Lines 229-235: Stooq, if there is no data yet
Stooq ==
  /\ pc = "stooq"
  /\ IF IsNoneOrEmpty(frame)
     THEN \/ \E stooq_error \in StooqErrors :
               /\ error_messages' = Append(error_messages, "Stooq failed: " \o stooq_error)
               /\ trace' = Append(trace, Attempt("stooq", NoneFrame))
               /\ UNCHANGED frame
          \/ /\ frame' \in StooqFrames(tickers)
             /\ trace' = Append(trace, Attempt("stooq", frame'))
             /\ UNCHANGED error_messages
     ELSE UNCHANGED <<frame, error_messages, trace>>
  /\ pc' = "fred"
  /\ UNCHANGED <<tickers, retrieved, outside>>

\* Lines 238-244: FRED, if there is no data yet
Fred ==
  /\ pc = "fred"
  /\ IF IsNoneOrEmpty(frame)
     THEN \/ \E fred_error \in FredErrors :
               /\ error_messages' = Append(error_messages, "FRED failed: " \o fred_error)
               /\ trace' = Append(trace, Attempt("fred", NoneFrame))
               /\ UNCHANGED frame
          \/ /\ frame' \in FredFrames(tickers)
             /\ trace' = Append(trace, Attempt("fred", frame'))
             /\ UNCHANGED error_messages
     ELSE UNCHANGED <<frame, error_messages, trace>>
  /\ pc' = "sources_done"
  /\ UNCHANGED <<tickers, retrieved, outside>>

\* Lines 247-254: every source failed; the message joins error_messages
AllSourcesFailed ==
  /\ pc = "sources_done"
  /\ IsNoneOrEmpty(frame)
  /\ retrieved' =
       ErrorResult(<<"Unable to retrieve real market data. All data sources failed: ">>
                     \o (IF error_messages # <<>> THEN error_messages
                         ELSE <<"Unknown data retrieval failure">>))
  /\ pc' = "returned"
  /\ UNCHANGED <<tickers, frame, error_messages, trace, outside>>

\* Lines 256-354: the result for the frame of the source that answered
Process ==
  /\ pc = "sources_done"
  /\ ~IsNoneOrEmpty(frame)
  /\ retrieved' = ProcessFrame(frame, tickers)
  /\ pc' = "returned"
  /\ UNCHANGED <<tickers, frame, error_messages, trace, outside>>

RetrieveNext ==
  \/ BatchDownload
  \/ IndividualDownload
  \/ Stooq
  \/ Fred
  \/ AllSourcesFailed
  \/ Process

RetrieveSpec == RetrieveInit /\ [][RetrieveNext]_vars

(***************************************************************************)
(* Two calls of calculate_black_litterman_returns, interleaved.  The       *)
(* function has no globals: a call consists of its arguments and locals.   *)
(* The calls are given one covariance frame; everything else is per call,  *)
(* and Switch hands the processor to the other call between two steps.     *)
(***************************************************************************)
\* The arguments and locals of the running call, but for the covariance
locals ==
  <<market_cap_weights, views, tau, risk_free_rate, risk_aversion,
    pc, pi, p, q, view_confidences, i, view_omegas, omega,
    tau_sigma_p, a, b, solution, ret, err, trace>>

\* The locals of a call that has not started
StartOfCall(mcw, vs, tau_, rf, delta) ==
  <<mcw, vs, tau_, rf, delta,
    "prior", <<>>, <<>>, <<>>, <<>>, 0, <<>>, <<>>,
    <<>>, <<>>, <<>>, <<>>, NoSeries, NoError, <<>>>>

\* Views of the interleaved calls
SharedViewSet ==
  { View("A", Rat(1, 10), Rat(4, 5)),
    View("B", Rat(-1, 20), One),
    View("ZZZZ", Rat(1, 10), Rat(1, 2)) }

\* The shared covariance: independent assets, or A and B perfectly correlated
SharedKinds == {"diag", "int"}

ConcurrentInit ==
  /\ \E kind \in SharedKinds :
       /\ cov_matrix = CovFrame(kind, Universe)
       /\ data = [status |-> "shared", cov_matrix |-> cov_matrix]
  /\ market_cap_weights \in {WeightDict("caps", keys) : keys \in CovOrders}
  /\ views \in SeqsUpTo(SharedViewSet, MaxViews)
  /\ tau = Rat(1, 20)
  /\ risk_free_rate = Zero
  /\ risk_aversion = Rat(5, 2)
  /\ suspended \in {StartOfCall(WeightDict("equal", <<"B", "A", "C">>), vs, One, Rat(1, 25), One) :
                      vs \in SeqsUpTo(SharedViewSet, 1)}
  /\ pc = "prior"
  /\ pi = <<>>
  /\ p = <<>>
  /\ q = <<>>
  /\ view_confidences = <<>>
  /\ i = 0
  /\ view_omegas = <<>>
  /\ omega = <<>>
  /\ tau_sigma_p = <<>>
  /\ a = <<>>
  /\ b = <<>>
  /\ solution = <<>>
  /\ ret = NoSeries
  /\ err = NoError
  /\ trace = <<>>
  /\ problem = NoProblem
  /\ result = NoResult
  /\ tickers = <<>>
  /\ frame = NoneFrame
  /\ error_messages = <<>>
  /\ retrieved = NoResult

\* The running call is set aside between two of its steps (or when it has
\* ended) and the other call, which has not ended, goes on
Switch ==
  /\ suspended # NoCall
  /\ suspended[6] \notin {"done", "raised"}
  /\ suspended' = locals
  /\ market_cap_weights' = suspended[1]
  /\ views' = suspended[2]
  /\ tau' = suspended[3]
  /\ risk_free_rate' = suspended[4]
  /\ risk_aversion' = suspended[5]
  /\ pc' = suspended[6]
  /\ pi' = suspended[7]
  /\ p' = suspended[8]
  /\ q' = suspended[9]
  /\ view_confidences' = suspended[10]
  /\ i' = suspended[11]
  /\ view_omegas' = suspended[12]
  /\ omega' = suspended[13]
  /\ tau_sigma_p' = suspended[14]
  /\ a' = suspended[15]
  /\ b' = suspended[16]
  /\ solution' = suspended[17]
  /\ ret' = suspended[18]
  /\ err' = suspended[19]
  /\ trace' = suspended[20]
  /\ UNCHANGED <<cov_matrix, problem, data, result, retrieval>>

ConcurrentNext ==
  \/ Prior
  \/ EncodeView
  \/ CallIdzorek
  \/ IdzorekView
  \/ IdzorekReturn
  \/ Solve
  \/ HandleLinAlgError
  \/ Switch

ConcurrentSpec == ConcurrentInit /\ [][ConcurrentNext]_vars

(***************************************************************************)
(* Properties                                                              *)
(***************************************************************************)
Keys == DictKeys(market_cap_weights)

Terminated == pc \in {"done", "raised"}

\* The weights and the covariance matrix are over the same tickers
SameTickers == Range(Keys) = Range(cov_matrix.index)

\* The views on a ticker that is no key of the weights
UnknownAssetViews == {j \in 1..Len(views) : \A x \in 1..Len(Keys) : Keys[x] # views[j].asset}

\* The views whose confidence n/d has n < 0 or n > d
InvalidConfidenceViews ==
  {j \in 1..Len(views) :
     views[j].confidence[1] < 0 \/ views[j].confidence[1] > views[j].confidence[2]}

ErrUnknownAsset == ValueError("is not in list")

ErrInvalidConfidence == ValueError("View confidences must be between 0 and 1")

ErrDimensionMismatch == ValueError("matrices are not aligned")

\* The weight of ticker t in market_cap_weights
WeightOf(t) == market_cap_weights[Position(Keys, t)].v

\* C1: with an empty views list the call returns, for every ticker, the
\* value that market_implied_prior_returns gives that ticker.
C1_ZeroViewsReturnPrior ==
  (pc = "done" /\ views = <<>>) =>
    LET prior == MarketImpliedPriorReturns(market_cap_weights, risk_aversion,
                                           cov_matrix, risk_free_rate).value
    IN \A t \in Range(Keys) : AsMapping(ret)[t] = AsMapping(prior)[t]

\* C2: with an empty views list the call never enters idzorek_method nor the
\* linear solve: no empty matrix reaches a solver.
C2_ZeroViewsSkipSolver ==
  views = <<>> =>
    /\ pc \notin {"idzorek", "solve", "except"}
    /\ Range(trace) \cap {"idzorek", "solve", "lstsq"} = {}

\* C3: the prior of the ticker of row j is delta * Sigma[j] . (w / sum(w)) + rf,
\* stated without division: pi[j] * sum(w) = delta * Sigma[j] . w + rf * sum(w);
\* the weights are normalised before the product is taken.
C3_PriorFormula ==
  pi # <<>> =>
    LET total == RSum(DictValues(market_cap_weights))
        labels == cov_matrix.index
    IN /\ RLt(Zero, total)
       /\ \A j \in 1..Len(labels) :
            RMul(pi[j], total) =
              RAdd(RMul(risk_aversion,
                        RSum([c \in 1..Len(labels) |->
                                RMul(cov_matrix.values[j][c], WeightOf(labels[c]))])),
                   RMul(risk_free_rate, total))
       /\ Len(pi) = Len(labels)
       /\ trace[1] = "normalize" /\ trace[2] = "prior_product"

C3_Witness ==
  /\ pc = "encode"
  /\ RSum(DictValues(market_cap_weights)) # One
  /\ Keys # cov_matrix.index
  /\ risk_free_rate # Zero

\* C4: a view on a ticker outside the universe makes the call fail with the
\* error of the asset lookup, which is neither the error of the dimension
\* check nor that of the confidence check, and nothing is returned.
C4_UnknownAssetFails ==
  (SameTickers /\ UnknownAssetViews # {}) =>
    /\ pc \in {"prior", "encode", "raised"}
    /\ ret = NoSeries
    /\ pc = "raised" =>
         /\ err = ErrUnknownAsset
         /\ err \notin {ErrDimensionMismatch, ErrInvalidConfidence}

C4_Witness ==
  /\ pc = "raised"
  /\ err = ErrUnknownAsset
  /\ Len(views) = 2
  /\ UnknownAssetViews = {2}

\* C5: a view with a confidence below 0 or above 1 makes the call fail with
\* the error of the confidence check, wherever the view stands in the list;
\* a call whose confidences are all inside [0, 1], 0 and 1 included, never
\* fails with that error.
C5_InvalidConfidenceFails ==
  /\ (SameTickers /\ UnknownAssetViews = {} /\ InvalidConfidenceViews # {}) =>
       /\ pc \notin {"solve", "except", "done"}
       /\ ret = NoSeries
       /\ pc = "raised" =>
            /\ err = ErrInvalidConfidence
            /\ err \notin {ErrDimensionMismatch, ErrUnknownAsset}
  /\ InvalidConfidenceViews = {} => err # ErrInvalidConfidence

C5_Witness ==
  /\ pc = "raised"
  /\ err = ErrInvalidConfidence
  /\ InvalidConfidenceViews = {2}
  /\ views[1].confidence = Zero
  /\ view_omegas = <<Rat(ZeroConfidenceOmega, 1)>>

\* C6: weights and covariance over different tickers (fewer, or as many but
\* others) make the prior computation fail with the error of the dimension
\* check; no prior vector exists and nothing is returned.
C6_DimensionMismatchFails ==
  ~ SameTickers =>
    /\ pc \in {"prior", "raised"}
    /\ pi = <<>>
    /\ ret = NoSeries
    /\ pc = "raised" =>
         /\ err = ErrDimensionMismatch
         /\ err \notin {ErrUnknownAsset, ErrInvalidConfidence}

C6_Witness ==
  /\ pc = "raised"
  /\ err = ErrDimensionMismatch
  /\ Len(Keys) = Len(cov_matrix.index)

\* C7: a call that ends with an error has done no matrix arithmetic before
\* it: no prior product, no Omega entry, no solve.
C7_ErrorsBeforeArithmetic ==
  pc = "raised" =>
    Range(trace) \cap {"prior_product", "omega_entry", "solve", "lstsq"} = {}

\* The square matrix m with its entries scaled to integers
RECURSIVE LCMOfDenominators(_)
LCMOfDenominators(row) ==
  IF row = <<>> THEN 1
  ELSE LET rest == LCMOfDenominators(Tail(row))
       IN (row[1][2] \div GCD(row[1][2], rest)) * rest

IntegerMatrix(m) ==
  LET scale == LCMOfDenominators([x \in 1..Len(m) |-> <<1, LCMOfDenominators(m[x])>>])
  IN [r \in 1..Len(m) |-> [c \in 1..Len(m) |-> m[r][c][1] * (scale \div m[r][c][2])]]

\* The determinant of a square integer matrix, by expansion along its first row
RECURSIVE Determinant(_)
Determinant(m) ==
  IF m = <<>> THEN 1
  ELSE LET minor(c) == [r \in 1..Len(m) - 1 |->
                          [j \in 1..Len(m) - 1 |-> m[r + 1][IF j < c THEN j ELSE j + 1]]]
           RECURSIVE expand(_)
           expand(c) == IF c > Len(m) THEN 0
                        ELSE (IF c % 2 = 1 THEN 1 ELSE -1) * m[1][c] * Determinant(minor(c))
                             + expand(c + 1)
       IN expand(1)

SystemIsSingular == Determinant(IntegerMatrix(a)) = 0

\* C8: a singular system does not make the call fail: the call never ends
\* with a linear-algebra error, and when the determinant of the system is 0
\* the returned posterior has a finite value for every ticker and comes from
\* a least-squares solution x, one with a^T (a x - b) = 0.
C8_SingularFallsBack ==
  /\ pc = "raised" => err.type = "ValueError"
  /\ (pc = "done" /\ SystemIsSingular) =>
       /\ trace[Len(trace)] = "lstsq"
       /\ ret.index = Keys
       /\ Len(ret.values) = Len(Keys)
       /\ \A j \in 1..Len(ret.values) : IsFinite(ret.values[j])
       /\ MatVec(Transpose(a, Len(a)), VecSub(MatVec(a, solution), b)) = Zeros(Len(a))

C8_Witness ==
  /\ pc = "done"
  /\ SystemIsSingular
  /\ Len(views) = 2
  /\ views[1].asset = views[2].asset
  /\ views[1].confidence = One /\ views[2].confidence = One

\* C9: the result of a call that took the least-squares branch differs from
\* the result of every call, with the same weights and covariance and any
\* views, that took the exact solve.
C9_FallbackObservable ==
  (pc = "done" /\ trace[Len(trace)] = "lstsq") =>
    \A vs \in SeqsUpTo(ViewSet, MaxViews) :
      LET r == CalculateBlackLittermanReturns(market_cap_weights, cov_matrix, vs,
                                              tau, risk_free_rate, risk_aversion)
      IN ~ (~ r.raised /\ ~ r.fallback /\ r.value = ret)

\* The covariance frame with its rows and columns rearranged by f
PermuteFrame(cov, f) ==
  [index |-> Permute(cov.index, f),
   values |-> [r \in 1..Len(cov.index) |->
                 [c \in 1..Len(cov.index) |-> cov.values[f[r]][f[c]]]]]

\* C10: the call on the tickers in another order, the weights and the rows
\* and columns of the covariance rearranged alike, returns the same value
\* for every ticker.
C10_OrderInvariance ==
  pc = "done" =>
    \A f \in Permutations(1..Len(market_cap_weights)) :
      LET r == CalculateBlackLittermanReturns(Permute(market_cap_weights, f),
                                              PermuteFrame(cov_matrix, f), views,
                                              tau, risk_free_rate, risk_aversion)
      IN ~ r.raised /\ AsMapping(r.value) = AsMapping(ret)

C10_Witness ==
  /\ pc = "done"
  /\ Len(views) = 2
  /\ views[1].asset # views[2].asset
  /\ RSum(DictValues(market_cap_weights)) # One

\* The ticker that position j stands for in the prior (the label that
\* market_implied_prior_returns gives entry j, dropped by pi.values)
PriorLabel(j) ==
  MarketImpliedPriorReturns(market_cap_weights, risk_aversion,
                            cov_matrix, risk_free_rate).value.index[j]

\* C11: once the prior is computed, position j stands for one ticker in the
\* prior, in the rows and columns of the covariance, in the columns of p and
\* in the labels of the returned posterior.
C11_PositionsMeanOneTicker ==
  (pc \in {"encode", "idzorek", "solve", "except", "done"}) =>
    \A j \in 1..Len(pi) :
      /\ PriorLabel(j) = cov_matrix.index[j]
      /\ PriorLabel(j) = Keys[j]
      /\ pc = "done" => ret.index[j] = PriorLabel(j)

\* C12: solve_black_litterman_problem on a problem with risk_aversion = r
\* returns the posterior returns of the prior r * Sigma * w + rf (weights and
\* covariance in one order, so that the order of C11 plays no part).
C12_CallerRiskAversionUsed ==
  (pc = "returned" /\ result.status = "success"
     /\ DictKeys(problem.market_cap_weights) = data.cov_matrix.index) =>
    LET r == CalculateBlackLittermanReturns(problem.market_cap_weights, data.cov_matrix,
                                            problem.views, problem.tau,
                                            problem.risk_free_rate, problem.risk_aversion)
    IN ~ r.raised /\ result.black_litterman_returns = AsMapping(r.value)

\* The prior of ticker t, as market_implied_prior_returns labels it
PriorOf(t) ==
  At(MarketImpliedPriorReturns(market_cap_weights, risk_aversion,
                               cov_matrix, risk_free_rate).value, t)

\* The variance of ticker t in the covariance matrix
VarianceOf(t) ==
  cov_matrix.values[Position(cov_matrix.index, t)][Position(cov_matrix.index, t)]

\* x lies strictly between lo and hi, whichever of the two is larger
StrictlyBetween(x, lo, hi) ==
  \/ RLt(lo, x) /\ RLt(x, hi)
  \/ RLt(hi, x) /\ RLt(x, lo)

\* A finished call with one view, on a ticker of the weights and of the
\* covariance
SingleView ==
  /\ pc = "done"
  /\ Len(views) = 1
  /\ SameTickers
  /\ InList(Keys, views[1].asset)

\* The scenario of the spec: diag(0.04, 0.09, 0.01), equal weights, delta 2.5,
\* rf 0, tau 0.05, the view A = 0.10
SpecScenario ==
  /\ SingleView
  /\ views[1].asset = "A" /\ views[1].expected_return = Rat(1, 10)
  /\ \A t \in Range(Keys) :
       /\ WeightOf(t) = Rat(1, 3)
       /\ \A u \in Range(Keys) : Sigma("diag", t, u) =
            cov_matrix.values[Position(cov_matrix.index, t)][Position(cov_matrix.index, u)]
  /\ risk_aversion = Rat(5, 2) /\ risk_free_rate = Zero /\ tau = Rat(1, 20)

\* C13: with one view on A, 0 < c < 1 and Sigma[A,A] > 0, the posterior of A
\* lies strictly between Pi[A] and the view's return (the two being
\* different); at c = 0.8 it is closer to the view's return; in the scenario
\* of the spec Pi[A] = 1/30.
C13_PosteriorBetweenPriorAndView ==
  (/\ SingleView
   /\ RLt(Zero, views[1].confidence) /\ RLt(views[1].confidence, One)
   /\ RLt(Zero, VarianceOf(views[1].asset))
   /\ PriorOf(views[1].asset) # views[1].expected_return) =>
    LET asset == views[1].asset
        post == AsMapping(ret)[asset]
    IN /\ StrictlyBetween(post, PriorOf(asset), views[1].expected_return)
       /\ views[1].confidence = Rat(4, 5) =>
            RLt(RAbs(RSub(post, views[1].expected_return)),
                RAbs(RSub(post, PriorOf(asset))))
       /\ SpecScenario => PriorOf("A") = Rat(1, 30)

\* Every off-diagonal entry of the covariance matrix is 0
IsDiagonal(m) == \A r \in 1..Len(m) : \A c \in 1..Len(m) : r # c => m[r][c] = Zero

ViewedAssets == {views[j].asset : j \in 1..Len(views)}

\* C14: with a diagonal covariance, every ticker that no view names keeps
\* its prior: posterior[B] = Pi[B].
C14_DiagonalLeavesOthersAtPrior ==
  (pc = "done" /\ SameTickers /\ views # <<>> /\ IsDiagonal(cov_matrix.values)) =>
    \A t \in Range(Keys) \ ViewedAssets : AsMapping(ret)[t] = PriorOf(t)

\* The confidences that the one view is raised to
ConfidenceGrid == {Rat(1, 4), Rat(1, 2), Rat(4, 5), One}

\* |posterior[asset of v] - expected return of v|
DistanceToView(posterior, v) == RAbs(RSub(AsMapping(posterior)[v.asset], v.expected_return))

\* C15: with one view and all else fixed, raising the confidence from c1 to
\* any c2 > c1, c1 = 0 included, brings the posterior of the view's asset at
\* least as close to the view's return (weights and covariance in one order,
\* so that the order of C11 plays no part).
C15_MonotoneInConfidence ==
  (SingleView /\ Keys = cov_matrix.index) =>
    \A c2 \in ConfidenceGrid :
      RLt(views[1].confidence, c2) =>
        LET r == CalculateBlackLittermanReturns(
                   market_cap_weights, cov_matrix,
                   <<[views[1] EXCEPT !.confidence = c2]>>,
                   tau, risk_free_rate, risk_aversion)
        IN /\ ~ r.raised
           /\ RLe(DistanceToView(r.value, views[1]), DistanceToView(ret, views[1]))

\* A relative tolerance of one percent, generous for a float comparison
Tolerance == Rat(1, 100)

\* x is within the tolerance of y: |x - y| / (1 + |y|) <= Tolerance
WithinTolerance(x, y) == RLe(RDiv(RAbs(RSub(x, y)), RAdd(One, RAbs(y))), Tolerance)

\* C16: when every view has confidence 0, the posterior of every ticker is
\* within the tolerance of its prior (weights and covariance in one order, so
\* that the order of C11 plays no part).
C16_ZeroConfidenceKeepsPrior ==
  (/\ pc = "done" /\ views # <<>> /\ Keys = cov_matrix.index
   /\ \A j \in 1..Len(views) : views[j].confidence = Zero) =>
    \A t \in Range(Keys) : WithinTolerance(AsMapping(ret)[t], PriorOf(t))

\* C17: with one view on A and Sigma[A,A] > 0, the posterior of A equals the
\* view's return at confidence 1, and approaches it as the confidence
\* approaches 1: at confidence c2 its distance to the view's return is at
\* most (1 - c2) * |Pi[A] - view return|.
C17_ConvergesToView ==
  (SingleView /\ RLt(Zero, VarianceOf(views[1].asset))) =>
    /\ views[1].confidence = One =>
         AsMapping(ret)[views[1].asset] = views[1].expected_return
    /\ \A c2 \in ConfidenceGrid :
         LET r == CalculateBlackLittermanReturns(
                    market_cap_weights, cov_matrix,
                    <<[views[1] EXCEPT !.confidence = c2]>>,
                    tau, risk_free_rate, risk_aversion)
         IN /\ ~ r.raised
            /\ RLe(DistanceToView(r.value, views[1]),
                   RMul(RSub(One, c2),
                        RAbs(RSub(PriorOf(views[1].asset), views[1].expected_return))))

\* C18: the encoder builds row i of p with One in the column of view i's
\* asset and Zero elsewhere, q[i] = view i's expected return and
\* view_confidences[i] = view i's confidence, in the order of views; once the
\* loop is over p is K x N.
C18_EncoderOneHot ==
  /\ (pc = "encode") =>
       \A x \in 1..(i - 1) :
         /\ \A j \in 1..Len(Keys) :
              p[x][j] = IF Keys[j] = views[x].asset THEN One ELSE Zero
         /\ Cardinality({j \in 1..Len(Keys) : p[x][j] = One}) = 1
         /\ q[x] = views[x].expected_return
         /\ view_confidences[x] = views[x].confidence
  /\ (pc \in {"idzorek", "solve", "except", "done"}) =>
       /\ Len(p) = Len(views) /\ Len(q) = Len(views)
       /\ Len(view_confidences) = Len(views)
       /\ \A x \in 1..Len(views) :
            /\ Len(p[x]) = Len(Keys)
            /\ \A j \in 1..Len(Keys) :
                 p[x][j] = IF Keys[j] = views[x].asset THEN One ELSE Zero
            /\ Cardinality({j \in 1..Len(Keys) : p[x][j] = One}) = 1
            /\ q[x] = views[x].expected_return
            /\ view_confidences[x] = views[x].confidence

\* Two views on one asset are encoded: two identical rows
C18_Witness ==
  /\ pc = "idzorek"
  /\ Len(views) = 2
  /\ views[1].asset = views[2].asset
  /\ views[1].expected_return # views[2].expected_return
  /\ p[1] = p[2]

\* p_x . Sigma . p_x^T, the variance of view x
ViewVariance(x) ==
  RSum([j \in 1..Len(p[x]) |->
          RSum([k \in 1..Len(p[x]) |->
                  RMul(RMul(p[x][j], cov_matrix.values[j][k]), p[x][k])])])

\* omega is K x K with zeros off the diagonal, and on the diagonal 1e6 for a
\* confidence 0 and tau * ((1 - c) / c) * (p_x . Sigma . p_x^T) otherwise,
\* never negative
OmegaEntries ==
  /\ Len(omega) = Len(views)
  /\ \A x \in 1..Len(views) :
       /\ Len(omega[x]) = Len(views)
       /\ \A y \in 1..Len(views) : x # y => omega[x][y] = Zero
       /\ omega[x][x] =
            IF view_confidences[x] = Zero THEN Rat(1000000, 1)
            ELSE RMul(RMul(tau, RDiv(RSub(One, view_confidences[x]), view_confidences[x])),
                      ViewVariance(x))
       /\ RLe(Zero, omega[x][x])

\* C19 as stated: the matrix that idzorek_method returned has the entries
\* above, and a diagonal entry is 0 exactly when the confidence is 1 or the
\* variance of the view is 0.
C19_IdzorekOmega ==
  (pc \in {"solve", "except", "done"}) =>
    /\ OmegaEntries
    /\ \A x \in 1..Len(views) :
         (omega[x][x] = Zero) <=>
           (view_confidences[x] = One \/ ViewVariance(x) = Zero)

\* C19 amended: a diagonal entry is 0 exactly when the confidence is not 0
\* and either the confidence is 1 or the variance of the view is 0; at
\* confidence 0 the entry is 1e6 whatever the variance.
C19_IdzorekOmegaAmended ==
  (pc \in {"solve", "except", "done"}) =>
    /\ OmegaEntries
    /\ \A x \in 1..Len(views) :
         (omega[x][x] = Zero) <=>
           /\ view_confidences[x] # Zero
           /\ (view_confidences[x] = One \/ ViewVariance(x) = Zero)

\* A zero-confidence view on an asset without variance has the entry 1e6
C19_Witness ==
  /\ pc = "solve"
  /\ \E x \in 1..Len(views) :
       /\ view_confidences[x] = Zero
       /\ ViewVariance(x) = Zero
       /\ omega[x][x] = Rat(1000000, 1)

\* S = tau * Sigma, entry by entry
ScaledCov(j, k) == RMul(tau, cov_matrix.values[j][k])

\* M = P.S.P^T + Omega and b = Q - P.Pi, entry by entry
SystemM(x, y) ==
  RAdd(RSum([j \in 1..Len(pi) |->
               RSum([k \in 1..Len(pi) |-> RMul(RMul(p[x][j], ScaledCov(j, k)), p[y][k])])]),
       omega[x][y])

SystemB(x) == RSub(q[x], RSum([j \in 1..Len(pi) |-> RMul(p[x][j], pi[j])]))

\* C20: with K >= 1 and a nonsingular M = P.S.P^T + Omega, the solution x
\* satisfies M.x = Q - P.Pi and the returned posterior is Pi + S.P^T.x, entry
\* by entry, under the labels of the weights.
C20_PosteriorFormula ==
  (pc = "done" /\ views # <<>> /\ ~ SystemIsSingular) =>
    /\ Len(solution) = Len(views)
    /\ \A x \in 1..Len(views) :
         /\ \A y \in 1..Len(views) : a[x][y] = SystemM(x, y)
         /\ RSum([y \in 1..Len(views) |-> RMul(SystemM(x, y), solution[y])]) = SystemB(x)
    /\ ret.index = Keys
    /\ \A j \in 1..Len(pi) :
         ret.values[j] =
           RAdd(pi[j],
                RSum([x \in 1..Len(views) |->
                        RMul(RSum([k \in 1..Len(pi) |-> RMul(ScaledCov(j, k), p[x][k])]),
                             solution[x])]))

\* Two views on different assets of a correlated covariance, solved exactly
C20_Witness ==
  /\ pc = "done"
  /\ Len(views) = 2
  /\ views[1].asset # views[2].asset
  /\ ~ SystemIsSingular
  /\ ~ IsDiagonal(cov_matrix.values)
  /\ trace[Len(trace)] = "solve"
  /\ solution[1] # Zero /\ solution[2] # Zero

\* C21: the step that calls calculate_black_litterman_returns passes weight
\* 1/N for each of the N tickers of problem.tickers when the problem came
\* without weights, and the caller's weights as they are otherwise.
C21_DefaultEqualWeights ==
  [][(pc = "retrieved" /\ pc' = "prior") =>
       /\ problem.market_cap_weights = None =>
            /\ DictKeys(market_cap_weights') = problem.tickers
            /\ \A j \in 1..Len(problem.tickers) :
                 market_cap_weights'[j].v = Rat(1, Len(problem.tickers))
       /\ problem.market_cap_weights # None =>
            market_cap_weights' = problem.market_cap_weights]_vars

\* A call without weights has gone through with the default
C21_Witness ==
  /\ pc = "returned"
  /\ result.status = "success"
  /\ DictKeys(market_cap_weights) = problem.tickers
  /\ \A j \in 1..Len(market_cap_weights) : market_cap_weights[j].v = Rat(1, 3)
  /\ problem.tickers # SortedTickers(problem.tickers)

\* C22: whenever calculate_black_litterman_returns is entered from
\* solve_black_litterman_problem, retrieve_stock_data had reported success
\* and the covariance matrix passed has no NaN entry and is not singular.
C22_ValidatedCovarianceOnly ==
  pc = "prior" =>
    /\ data.status = "success"
    /\ ~HasNaN(cov_matrix)
    /\ Determinant(IntegerMatrix(cov_matrix.values)) # 0

\* C23: no step of calculate_black_litterman_returns changes the caller's
\* covariance matrix, whether the call ends by the exact solve, by the
\* least-squares solve or by an exception.
C23_CovarianceUnchanged == [][cov_matrix' = cov_matrix]_vars

\* The least-squares path was taken and the call returned
C23_Witness ==
  /\ pc = "done"
  /\ InList(trace, "lstsq")
  /\ cov_matrix = CovFrame("int", <<"C", "A", "B">>)
  /\ Len(views) = 2

\* What a call with the locals c returns when it runs alone on cov
AloneAgrees(c, cov) ==
  LET r == CalculateBlackLittermanReturns(c[1], cov, c[2], c[3], c[4], c[5])
  IN /\ c[6] = "done" => ~ r.raised /\ r.value = c[18]
     /\ c[6] = "raised" => r.raised /\ r.err = c[19]

\* C24: when two calls that share the covariance frame have both ended, in
\* whatever way their steps were interleaved, each has the result (posterior
\* or exception) of the same call run alone.
C24_InterleavingIndependent ==
  (suspended # NoCall /\ Terminated /\ suspended[6] \in {"done", "raised"}) =>
    /\ AloneAgrees(locals, data.cov_matrix)
    /\ AloneAgrees(suspended, data.cov_matrix)

\* Both calls returned a posterior, and each was set aside while it was
\* between its first and its last step
C24_Witness ==
  /\ suspended # NoCall
  /\ pc = "done"
  /\ suspended[6] = "done"
  /\ Len(views) = 2
  /\ Len(suspended[2]) = 1
  /\ ret # suspended[18]

\* C25: solve_black_litterman_problem never raises and never returns a
\* partial result: an exception inside it is always turned into a result,
\* and what it returns is either a success with a posterior value for every
\* ticker of the problem, or an error that has a message and nothing else.
C25_SuccessOrErrorResult ==
  /\ (pc = "raised" /\ problem # NoProblem) => ENABLED SolveExcept
  /\ pc = "returned" =>
       \/ /\ result.status = "success"
          /\ \A j \in 1..Len(problem.tickers) :
               problem.tickers[j] \in DOMAIN result.black_litterman_returns
       \/ /\ result.status = "error"
          /\ DOMAIN result = {"status", "message"}
          /\ result.message # <<>>

\* The call returned an error result for an exception raised after the
\* prior had been computed
C25_Witness ==
  /\ pc = "returned"
  /\ result.status = "error"
  /\ err.type = "ValueError"
  /\ pi # <<>>
  /\ DOMAIN result = {"status", "message"}

\* C26: retrieve_stock_data returns an error whenever the prices it got
\* give fewer than two rows of returns, and it returns success only with at
\* least two rows of returns, a returns column for every requested ticker,
\* and a covariance matrix without NaN that is not all zeros.
C26_SuccessNeedsTwoReturnRows ==
  pc = "returned" /\ retrieved # NoResult =>
    /\ (IsNoneOrEmpty(frame) \/ Len(DropNa(PctChange(frame.rows))) < 2) =>
         retrieved.status = "error"
    /\ retrieved.status = "success" =>
         LET cov == retrieved.cov_matrix.values
         IN /\ Len(retrieved.returns) >= 2
            /\ retrieved.num_days = Len(retrieved.returns)
            /\ \A j \in 1..Len(tickers) : InList(retrieved.columns, tickers[j])
            /\ retrieved.cov_matrix.index = retrieved.columns
            /\ \A x \in 1..Len(cov) : \A y \in 1..Len(cov) : cov[x][y] # NaN
            /\ \E x \in 1..Len(cov) : \E y \in 1..Len(cov) : cov[x][y] # Zero

\* Success for two tickers from three days of prices, which give exactly two
\* rows of returns
C26_Witness ==
  /\ pc = "returned"
  /\ retrieved.status = "success"
  /\ Len(tickers) = 2
  /\ Len(frame.rows) = 3
  /\ retrieved.num_days = 2

SourceOrder == <<"batch", "individual", "stooq", "fred">>

\* The attempts that delivered data
Answered == {k \in 1..Len(trace) : trace[k].data}

\* C29: the sources are asked in the order batch, per ticker, Stooq, FRED; a
\* source is asked only after every earlier one gave nothing; the frame of
\* the first source that gave data is the one the result is made from; and
\* when all four gave nothing the result is an error whose message lists the
\* failures recorded on the way.
C29_SourcesInOrder ==
  pc \in {"individual", "stooq", "fred", "sources_done", "returned"} /\ tickers # <<>> =>
    /\ Len(trace) <= Len(SourceOrder)
    /\ \A k \in 1..Len(trace) : trace[k].source = SourceOrder[k]
    /\ \A k \in Answered : k = Len(trace)
    /\ pc \in {"sources_done", "returned"} =>
         /\ Answered = {} => Len(trace) = Len(SourceOrder)
         /\ \A k \in Answered : frame = trace[k].frame
    /\ pc = "returned" =>
         /\ Answered # {} => retrieved = ProcessFrame(trace[Len(trace)].frame, tickers)
         /\ Answered = {} =>
              /\ retrieved.status = "error"
              /\ error_messages # <<>>
              /\ SubSeq(retrieved.message, 2, Len(retrieved.message)) = error_messages

\* The batch download came back empty, the per-ticker download raised, Stooq
\* had nothing, and the frame of FRED was used
C29_Witness ==
  /\ pc = "returned"
  /\ Len(trace) = 4
  /\ trace[1].frame # NoneFrame
  /\ trace[4].data
  /\ frame = trace[4].frame
  /\ Len(error_messages) = 2

\* All four sources gave nothing
C29_AllFailedWitness ==
  /\ pc = "returned"
  /\ Answered = {}
  /\ Len(trace) = 4
  /\ Len(error_messages) = 4

\* Two views on one asset of the weights and of the covariance matrix, both
\* of confidence 1, with different returns; the call has ended
ContradictingViews ==
  /\ Terminated
  /\ SameTickers
  /\ Len(views) = 2
  /\ views[1].asset = views[2].asset
  /\ InList(Keys, views[1].asset)
  /\ views[1].confidence = One
  /\ views[2].confidence = One
  /\ views[1].expected_return # views[2].expected_return

\* C27: two views of confidence 1 on the same asset A with Sigma[A,A] > 0
\* and different returns q1, q2 do not make the call fail: the call returns
\* by the least-squares path and the posterior of A is (q1 + q2) / 2.
C27_ContradictingViewsAveraged ==
  (ContradictingViews /\ RLt(Zero, VarianceOf(views[1].asset))) =>
    /\ pc = "done"
    /\ trace[Len(trace)] = "lstsq"
    /\ AsMapping(ret)[views[1].asset] =
         RDiv(RAdd(views[1].expected_return, views[2].expected_return), Rat(2, 1))

\* The tickers that max_return_portfolio gives the weight w
HeldAt(w) ==
  {result.max_return_weights[j].k :
     j \in {x \in 1..Len(result.max_return_weights) : result.max_return_weights[x].v = w}}

\* C28: in a successful result max_return_portfolio gives weight 1 to one
\* ticker and 0 to every other, and that ticker has the largest value of
\* black_litterman_returns, the first such in the order of its keys.
C28_MaxReturnOneHot ==
  (pc = "returned" /\ result.status = "success") =>
    LET returns == result.black_litterman_returns
    IN /\ Cardinality(HeldAt(One)) = 1
       /\ HeldAt(One) \cup HeldAt(Zero) = Range(problem.tickers)
       /\ HeldAt(One) \cap HeldAt(Zero) = {}
       /\ \A t \in HeldAt(One) :
            /\ t \in DOMAIN returns
            /\ \A u \in DOMAIN returns : RLe(returns[u], returns[t])
            /\ \A j \in 1..(Position(Keys, t) - 1) : returns[Keys[j]] # returns[t]

\* A step changes the problem at most by storing, into a problem without
\* weights, the weight 1/N for each of its N tickers in their order
OnlyEqualWeightsStored ==
  problem' # problem =>
    /\ problem.market_cap_weights = None
    /\ [problem' EXCEPT !.market_cap_weights = None] = problem
    /\ Len(problem'.market_cap_weights) = Len(problem.tickers)
    /\ \A j \in 1..Len(problem.tickers) :
         problem'.market_cap_weights[j] =
           [k |-> problem.tickers[j], v |-> Rat(1, Len(problem.tickers))]

\* C30: solve_black_litterman_problem changes its input only by storing the
\* equal weights into a problem that came without weights, and when it
\* returns the problem has weights.
C30_StoresEqualWeightsAlways ==
  [][/\ OnlyEqualWeightsStored
     /\ pc' = "returned" => problem'.market_cap_weights # None]_vars

\* C30, amended: solve_black_litterman_problem changes its input only by
\* storing the equal weights into a problem that came without weights; it
\* does so only after retrieve_stock_data reported success, so the problem
\* has weights when the call returns after a successful retrieval and is
\* unchanged when the call returns the error of retrieve_stock_data.
C30_StoresEqualWeightsAfterData ==
  [][/\ OnlyEqualWeightsStored
     /\ problem' # problem => data.status = "success"
     /\ (pc' = "returned" /\ data'.status = "success") =>
          problem'.market_cap_weights # None
     /\ (pc' = "returned" /\ data'.status = "error") => problem' = problem]_vars

\* The equal weights were stored and the call then returned an error of the
\* Black-Litterman stage
C30_Witness ==
  /\ pc = "returned"
  /\ data.status = "success"
  /\ result.status = "error"
  /\ problem.market_cap_weights = EqualWeights(problem.tickers)
  /\ Len(problem.views) = 2

\* The call returned the error of retrieve_stock_data and the problem is
\* still without weights
C30_ReturnedWithoutWeights ==
  /\ pc = "returned"
  /\ data.status = "error"
  /\ problem.market_cap_weights = None

\* The steps of the call and the call as a function agree
StepsAgree ==
  LET r == CalculateBlackLittermanReturns(market_cap_weights, cov_matrix, views,
                                          tau, risk_free_rate, risk_aversion)
  IN /\ pc = "done" => ~ r.raised /\ r.value = ret
                       /\ r.fallback = (trace[Len(trace)] = "lstsq")
     /\ pc = "raised" => r.raised /\ r.err = err

====
